---- MODULE Spec2Model ----
(***************************************************************************)
(* Real-time layer of src/index.js: the socket.io connection handler       *)
(* (lines 143-177).  The room registry is the socket.io adapter's map      *)
(* room id -> set of sockets; handlers run to completion one at a time on  *)
(* the single event loop, so every handler is one atomic action.           *)
(*                                                                         *)
(* Room ids are the strings clients send; user ids and conversation ids    *)
(* live in the same namespace (socket.join is called with either).  The    *)
(* room every socket owns under its own random socket id is left out: no   *)
(* handler of index.js names it.                                           *)
(***************************************************************************)
EXTENDS Integers, Sequences, FiniteSets, TLC

\* ---- bounds ----
NumConns == 2
MaxUsers == 2
MaxSends == 3

\* ---- identifiers ----
Conns == 1..NumConns
UserIds == {"u1", "u2"}
ConvIds == {"conv1"}
RoomIds == UserIds \cup ConvIds
None == "none"

VARIABLES
    status,     \* per connection: "idle" (not yet accepted), "live", "closed"
    rooms,      \* adapter registry: function from the existing room ids to member sets
    last,       \* the inbound event handled last (history); last.before is the
                \* number of rooms its socket was in when the handler started
    delivered,  \* per connection: number of outbound pushes made by that event
    leaveAllCalls, \* per connection: number of times leaveAll ran for it
    alive,      \* FALSE once an exception escaped a handler (uncaught, process ends)
    inbox,      \* per connection: inbound events received and not yet dispatched
    sentCount,  \* per connection: number of events the client has sent
    handled,    \* per connection: number of the event dispatched last
    seen        \* seen[d][c]: number of the last event of c that pushed to d

server == <<status, rooms, last, delivered, leaveAllCalls, alive>>
transport == <<inbox, sentCount, handled, seen>>
vars == <<status, rooms, last, delivered, leaveAllCalls, alive, inbox, sentCount, handled, seen>>

\* ---- payload shapes of `new message` ----
\* chat.users: undefined, a falsy scalar, a truthy scalar, a plain object, or an
\* array of descriptors (each descriptor is represented by its _id, a user id).
RECURSIVE SeqsUpTo(_, _)
SeqsUpTo(S, n) ==
    IF n = 0 THEN {<<>>}
    ELSE LET shorter == SeqsUpTo(S, n - 1)
         IN  shorter \cup {Append(s, x) : s \in {t \in shorter : Len(t) = n - 1}, x \in S}

\* forEach pushes once per descriptor whatever their order, so of the arrays
\* that are permutations of one another one is enough: the u1's first
Copies(x, n) == [i \in 1..n |-> x]
UserArrays ==
    {s \in SeqsUpTo(UserIds, MaxUsers) :
        \E k \in 0..Len(s) : s = Copies("u1", k) \o Copies("u2", Len(s) - k)}

UsersTags == {"undefined", "falsy", "scalar", "object", "array"}
UsersVals ==
    {[tag |-> t, items |-> <<>>] : t \in UsersTags \ {"array"}}
    \cup {[tag |-> "array", items |-> s] : s \in UserArrays}
NoUsers == [tag |-> "undefined", items |-> <<>>]
\* a payload without chat, payloads whose chat.users is not an array, and
\* payloads with an array of descriptors and any sender._id
Messages ==
    {[hasChat |-> FALSE, users |-> NoUsers, sender |-> "u1"]}
    \cup {[hasChat |-> TRUE, users |-> u, sender |-> "u1"] : u \in {v \in UsersVals : v.tag # "array"}}
    \cup {[hasChat |-> TRUE, users |-> u, sender |-> s] :
             u \in {v \in UsersVals : v.tag = "array"}, s \in UserIds}

NoEvent == [kind |-> "init", conn |-> 0, room |-> None, hasChat |-> FALSE,
            users |-> NoUsers, sender |-> None, out |-> None, raised |-> FALSE,
            before |-> 0]

\* ---- the adapter (room registry) ----
members(reg, R) == IF R \in DOMAIN reg THEN reg[R] ELSE {}

\* variant: nothing is cleaned up on close
leaveNothing(reg, c) == reg

\* variant: every room the socket was in is deleted with its other members
leaveAllDropRooms(reg, c) ==
    [r \in {q \in DOMAIN reg : c \notin reg[q]} |-> reg[r]]

\* variant: rooms that become empty stay in the registry
leaveAllKeepEmpty(reg, c) == [r \in DOMAIN reg |-> reg[r] \ {c}]

\* on transport close socket.io removes the socket from every room and drops
\* the rooms that become empty
leaveAll(reg, c) ==
    [r \in {q \in DOMAIN reg : reg[q] \ {c} # {}} |-> reg[r] \ {c}]

\* variant: membership is a single slot, joining R leaves every other room
joinSingleSlot(reg, R, c) ==
    [r \in DOMAIN leaveAll(reg, c) \cup {R} |->
        IF r = R THEN members(reg, R) \cup {c} ELSE leaveAll(reg, c)[r]]

\* variant: a join by a socket that is already a member takes it out again
joinToggle(reg, R, c) ==
    IF c \in members(reg, R)
    THEN [r \in {q \in DOMAIN reg : q # R \/ reg[q] # {c}} |->
             IF r = R THEN reg[r] \ {c} ELSE reg[r]]
    ELSE [r \in DOMAIN reg \cup {R} |-> IF r = R THEN members(reg, R) \cup {c} ELSE reg[r]]

\* socket.join(R): add the socket to R's set, creating the room if absent
join(reg, R, c) ==
    [r \in DOMAIN reg \cup {R} |-> IF r = R THEN members(reg, R) \cup {c} ELSE reg[r]]

\* socket.rooms: the rooms the socket is in
roomsOf(reg, c) == {r \in DOMAIN reg : c \in reg[r]}

\* variant: the sender is not excluded (io.in(R))
inRoomWithSender(reg, R, c) == members(reg, R)

\* socket.in(R): the sockets of room R except the sending socket
inRoom(reg, R, c) == members(reg, R) \ {c}

NoPush == [c \in Conns |-> 0]
\* variant: only a member of R may broadcast to R
emitInIfMember(reg, R, c) ==
    [d \in Conns |-> IF c \in members(reg, R) /\ d \in members(reg, R) \ {c} THEN 1 ELSE 0]

\* socket.in(R).emit(ev): one push to each socket of inRoom
emitIn(reg, R, c) == [d \in Conns |-> IF d \in inRoom(reg, R, c) THEN 1 ELSE 0]
\* variant: the event goes to every socket (io.emit)
emitEveryone(c) == [d \in Conns |-> 1]

\* socket.emit(ev): one push to the socket itself
emitSelf(c) == [d \in Conns |-> IF d = c THEN 1 ELSE 0]

\* variant: only a falsy value that is not undefined is caught
usersFalsyNotUndefined(u) == u.tag = "falsy"

\* !chat.users
usersFalsy(u) == u.tag \in {"undefined", "falsy"}
\* chat.users.forEach exists only on arrays
hasForEach(u) == u.tag = "array"

\* chat.users.forEach(...): one broadcast per descriptor whose _id differs
\* from sender._id; pushes add up per receiving socket
RECURSIVE forEachUser(_, _, _, _)
forEachUser(reg, items, senderId, c) ==
    IF items = <<>> THEN NoPush
    ELSE LET rest == forEachUser(reg, Tail(items), senderId, c)
             user == Head(items)
         IN  IF user = senderId THEN rest
             ELSE [d \in Conns |-> emitIn(reg, user, c)[d] + rest[d]]

\* ---- state machine ----
Init ==
    /\ status = [c \in Conns |-> "idle"]
    /\ rooms = <<>>
    /\ last = NoEvent
    /\ delivered = NoPush
    /\ leaveAllCalls = [c \in Conns |-> 0]
    /\ alive = TRUE
    /\ inbox = [c \in Conns |-> <<>>]
    /\ sentCount = [c \in Conns |-> 0]
    /\ handled = [c \in Conns |-> 0]
    /\ seen = [d \in Conns |-> [c \in Conns |-> 0]]

\* io.on('connection'): the transport accepts a new socket; ids are handed out
\* in order and never reused
onConnection(c) ==
    /\ alive
    /\ status[c] = "idle"
    /\ \A d \in Conns : d < c => status[d] # "idle"
    /\ status' = [status EXCEPT ![c] = "live"]
    /\ last' = [NoEvent EXCEPT !.kind = "connection", !.conn = c]
    /\ delivered' = NoPush
    /\ UNCHANGED <<rooms, leaveAllCalls, alive>>

\* socket.on('setup'); id is userData._id
onSetup(c, id) ==
    /\ alive
    /\ status[c] = "live"
    /\ rooms' = join(rooms, id, c)
    /\ delivered' = emitSelf(c)
    /\ last' = [NoEvent EXCEPT !.kind = "setup", !.conn = c, !.room = id, !.out = "connected",
                               !.before = Cardinality(roomsOf(rooms, c))]
    /\ UNCHANGED <<status, leaveAllCalls, alive>>

\* variant: the join is announced to the members of the room
onJoinChatAnnounce(c, room) ==
    /\ alive
    /\ status[c] = "live"
    /\ rooms' = join(rooms, room, c)
    /\ delivered' = [d \in Conns |-> IF d \in members(rooms, room) \ {c} THEN 1 ELSE 0]
    /\ last' = [NoEvent EXCEPT !.kind = "join chat", !.conn = c, !.room = room,
                               !.before = Cardinality(roomsOf(rooms, c))]
    /\ UNCHANGED <<status, leaveAllCalls, alive>>

\* socket.on('join chat')
onJoinChat(c, room) ==
    /\ alive
    /\ status[c] = "live"
    /\ rooms' = join(rooms, room, c)
    /\ delivered' = NoPush
    /\ last' = [NoEvent EXCEPT !.kind = "join chat", !.conn = c, !.room = room,
                               !.before = Cardinality(roomsOf(rooms, c))]
    /\ UNCHANGED <<status, leaveAllCalls, alive>>

\* variant: typing in a room also joins it
onTypingJoins(c, room) ==
    /\ alive
    /\ status[c] = "live"
    /\ rooms' = join(rooms, room, c)
    /\ delivered' = emitIn(rooms, room, c)
    /\ last' = [NoEvent EXCEPT !.kind = "typing", !.conn = c, !.room = room, !.out = "typing",
                               !.before = Cardinality(roomsOf(rooms, c))]
    /\ UNCHANGED <<status, leaveAllCalls, alive>>

\* socket.on('typing')
onTyping(c, room) ==
    /\ alive
    /\ status[c] = "live"
    /\ delivered' = emitIn(rooms, room, c)
    /\ last' = [NoEvent EXCEPT !.kind = "typing", !.conn = c, !.room = room, !.out = "typing",
                               !.before = Cardinality(roomsOf(rooms, c))]
    /\ UNCHANGED <<status, rooms, leaveAllCalls, alive>>

\* socket.on('stop typing')
onStopTyping(c, room) ==
    /\ alive
    /\ status[c] = "live"
    /\ delivered' = emitIn(rooms, room, c)
    /\ last' = [NoEvent EXCEPT !.kind = "stop typing", !.conn = c, !.room = room,
                               !.out = "stop typing",
                               !.before = Cardinality(roomsOf(rooms, c))]
    /\ UNCHANGED <<status, rooms, leaveAllCalls, alive>>

\* outcome of the `new message` handler body: "throw" when chat is undefined
\* (chat.users) or chat.users is truthy without forEach, "drop" on !chat.users
newMessageOutcome(m) ==
    IF ~m.hasChat THEN "throw"
    ELSE IF usersFalsy(m.users) THEN "drop"
    ELSE IF ~hasForEach(m.users) THEN "throw"
    ELSE "fanout"

\* socket.on('new message')
onNewMessage(c, m) ==
    /\ alive
    /\ status[c] = "live"
    /\ LET outcome == newMessageOutcome(m)
       IN  /\ delivered' = IF outcome = "fanout"
                           THEN forEachUser(rooms, m.users.items, m.sender, c)
                           ELSE NoPush
           /\ last' = [kind |-> "new message", conn |-> c, room |-> None,
                       hasChat |-> m.hasChat, users |-> m.users, sender |-> m.sender,
                       out |-> "message recieved", raised |-> (outcome = "throw"),
                       before |-> Cardinality(roomsOf(rooms, c))]
           /\ alive' = (outcome # "throw")
    /\ UNCHANGED <<status, rooms, leaveAllCalls>>

\* transport close of a live socket
onDisconnect(c) ==
    /\ alive
    /\ status[c] = "live"
    /\ status' = [status EXCEPT ![c] = "closed"]
    /\ rooms' = leaveAll(rooms, c)
    /\ leaveAllCalls' = [leaveAllCalls EXCEPT ![c] = @ + 1]
    /\ delivered' = NoPush
    /\ last' = [NoEvent EXCEPT !.kind = "disconnect", !.conn = c,
                               !.before = Cardinality(roomsOf(rooms, c))]
    /\ UNCHANGED alive

\* ---- the actions of Spec: every handler runs as soon as its event arrives ----
Connection(c) == onConnection(c) /\ UNCHANGED transport
Setup(c, id) == onSetup(c, id) /\ UNCHANGED transport
JoinChat(c, room) == onJoinChat(c, room) /\ UNCHANGED transport
Typing(c, room) == onTyping(c, room) /\ UNCHANGED transport
StopTyping(c, room) == onStopTyping(c, room) /\ UNCHANGED transport
NewMessage(c, m) == onNewMessage(c, m) /\ UNCHANGED transport
Disconnect(c) == onDisconnect(c) /\ UNCHANGED transport

Next ==
    \/ \E c \in Conns : Connection(c)
    \/ \E c \in Conns, id \in UserIds : Setup(c, id)
    \/ \E c \in Conns, room \in RoomIds : JoinChat(c, room)
    \/ \E c \in Conns, room \in RoomIds : Typing(c, room)
    \/ \E c \in Conns, room \in RoomIds : StopTyping(c, room)
    \/ \E c \in Conns, m \in Messages : NewMessage(c, m)
    \/ \E c \in Conns : Disconnect(c)

Spec == Init /\ [][Next]_vars

\* ---- SpecOrder: events in flight ----
\* The client's events travel on the connection and wait in inbox until the
\* event loop dispatches them; every handler is synchronous, so a dispatch runs
\* the whole handler.  Events are numbered per connection in sending order.
OrderMessages ==
    {m \in Messages : m.hasChat /\ m.users.tag = "array" /\ Len(m.users.items) = 1
                      /\ m.users.items[1] = "u1" /\ m.sender = "u2"}
NoMessage == [hasChat |-> FALSE, users |-> NoUsers, sender |-> "u1"]
OrderInputs ==
    {[kind |-> "setup", room |-> "u1", msg |-> NoMessage]}
    \cup {[kind |-> k, room |-> r, msg |-> NoMessage] :
             k \in {"join chat", "typing", "stop typing"}, r \in ConvIds}
    \cup {[kind |-> "new message", room |-> None, msg |-> m] : m \in OrderMessages}

RECURSIVE Sum(_, _)
Sum(f, S) == IF S = {} THEN 0 ELSE LET x == CHOOSE y \in S : TRUE IN f[x] + Sum(f, S \ {x})

\* the client emits an event on its connection
ClientSend(c, e) ==
    /\ alive
    /\ status[c] = "live"
    /\ Sum(sentCount, Conns) < MaxSends
    /\ sentCount' = [sentCount EXCEPT ![c] = @ + 1]
    /\ inbox' = [inbox EXCEPT ![c] =
                    Append(@, [kind |-> e.kind, room |-> e.room, msg |-> e.msg,
                               seq |-> sentCount[c] + 1])]
    /\ UNCHANGED <<server, handled, seen>>

\* variant: the newest pending event is taken first
dequeueNewest(q) == [event |-> q[Len(q)], rest |-> SubSeq(q, 1, Len(q) - 1)]

\* the transport hands over a connection's events in the order received
dequeue(q) == [event |-> Head(q), rest |-> Tail(q)]

\* the event loop runs the handler registered for the next event of c
Dispatch(c) ==
    /\ inbox[c] # <<>>
    /\ LET e == dequeue(inbox[c]).event
       IN  /\ \/ e.kind = "setup" /\ onSetup(c, e.room)
              \/ e.kind = "join chat" /\ onJoinChat(c, e.room)
              \/ e.kind = "typing" /\ onTyping(c, e.room)
              \/ e.kind = "stop typing" /\ onStopTyping(c, e.room)
              \/ e.kind = "new message" /\ onNewMessage(c, e.msg)
           /\ handled' = [handled EXCEPT ![c] = e.seq]
           /\ seen' = [d \in Conns |->
                          IF delivered'[d] >= 1 THEN [seen[d] EXCEPT ![c] = e.seq]
                          ELSE seen[d]]
    /\ inbox' = [inbox EXCEPT ![c] = dequeue(@).rest]
    /\ UNCHANGED sentCount

\* transport close: the pending events of the socket are discarded
Close(c) ==
    /\ onDisconnect(c)
    /\ inbox' = [inbox EXCEPT ![c] = <<>>]
    /\ UNCHANGED <<sentCount, handled, seen>>

NextOrder ==
    \/ \E c \in Conns : Connection(c)
    \/ \E c \in Conns, e \in OrderInputs : ClientSend(c, e)
    \/ \E c \in Conns : Dispatch(c)
    \/ \E c \in Conns : Close(c)

SpecOrder == Init /\ [][NextOrder]_vars

TypeOK ==
    /\ status \in [Conns -> {"idle", "live", "closed"}]
    /\ DOMAIN rooms \subseteq RoomIds
    /\ \A r \in DOMAIN rooms : rooms[r] \subseteq Conns
    /\ delivered \in [Conns -> Nat]
    /\ alive \in BOOLEAN
\* ---- properties ----
isTyping(e) == e.kind \in {"typing", "stop typing"}
isFanOut(e) == e.kind = "new message" /\ e.hasChat /\ e.users.tag = "array"
personalRoomsOf(reg, c) == roomsOf(reg, c) \cap UserIds
Range(s) == {s[i] : i \in DOMAIN s}

\* C1: a typing / stop typing event from C for room R is delivered to every
\* member of R other than C and to nobody else, never to C itself.
C1_TypingReachesOthersOnly ==
    isTyping(last) =>
        /\ delivered[last.conn] = 0
        /\ \A d \in Conns :
              delivered[d] >= 1 <=> (d \in members(rooms, last.room) /\ d # last.conn)
C1_Witness ==
    /\ isTyping(last)
    /\ last.conn \in members(rooms, last.room)
    /\ \E d \in Conns : d # last.conn /\ delivered[d] >= 1

\* C2: for a new message with an array chat.users, every connection in a
\* recipient's personal room (a descriptor other than the sender's) gets the
\* message, and no connection of the sender (the sending socket or a member of
\* the sender's personal room) gets it.
C2_RecipientsNotSender ==
    isFanOut(last) =>
        LET recipients == Range(last.users.items) \ {last.sender}
            senders == members(rooms, last.sender) \cup {last.conn}
        IN  /\ \A d \in Conns \ senders :
                  (\E u \in recipients : d \in members(rooms, u)) => delivered[d] >= 1
            /\ \A d \in senders : delivered[d] = 0

\* C3: a new message whose chat.users is missing makes no push, raises
\* nothing, and leaves the connection live, its memberships and the whole
\* registry unchanged.
isMissingUsers(e) == e.kind = "new message" /\ e.hasChat /\ e.users.tag = "undefined"
C4_NonCollectionDropped ==
    (last.kind = "new message" /\ last.hasChat
        /\ last.users.tag \in {"falsy", "scalar", "object"}) =>
        (delivered = NoPush /\ ~last.raised)

isJoin(e) == e.kind \in {"setup", "join chat"}
C6_JoinIdempotent ==
    [][isJoin(last') =>
          /\ last'.conn \in members(rooms', last'.room)
          /\ (last'.conn \in members(rooms, last'.room) => rooms' = rooms)]_vars
C6_Witness ==
    /\ isJoin(last)
    /\ last.before = Cardinality(roomsOf(rooms, last.conn))
    /\ Cardinality(members(rooms, last.room)) >= 2

\* C7: one inbound event pushes at most once to any one connection.
C7_AtMostOnePush == \A d \in Conns : delivered[d] <= 1

\* C8: setup from C adds C to the room of the given id, emits exactly one
\* `connected`, to C only, and changes no other room's members.
C8_SetupJoinsAndAcks ==
    [][last'.kind = "setup" =>
          /\ members(rooms', last'.room) = members(rooms, last'.room) \cup {last'.conn}
          /\ \A r \in RoomIds \ {last'.room} : members(rooms', r) = members(rooms, r)
          /\ last'.out = "connected"
          /\ delivered'[last'.conn] = 1
          /\ \A d \in Conns \ {last'.conn} : delivered'[d] = 0]_vars
C8_Witness ==
    /\ last.kind = "setup"
    /\ delivered[last.conn] = 1
    /\ last.before < Cardinality(roomsOf(rooms, last.conn))
    /\ \E d \in Conns : d # last.conn /\ status[d] = "live" /\ roomsOf(rooms, d) # {}

\* C9: a connection becomes a member of a conversation room only by its own
\* join chat for that room, and of a personal room only by its own setup with
\* that user id.
C9_MembershipByKind ==
    [][\A c \in Conns, r \in RoomIds :
          (c \in members(rooms', r) /\ c \notin members(rooms, r)) =>
              /\ last'.conn = c /\ last'.room = r
              /\ last'.kind = (IF r \in UserIds THEN "setup" ELSE "join chat")]_vars

\* C10: a connection that has sent setup is in exactly one personal room.
C10_OnePersonalRoom ==
    last.kind = "setup" => Cardinality(personalRoomsOf(rooms, last.conn)) = 1
C14_JoinChatFrame ==
    [][last'.kind = "join chat" =>
          /\ members(rooms', last'.room) = members(rooms, last'.room) \cup {last'.conn}
          /\ \A r \in RoomIds \ {last'.room} : members(rooms', r) = members(rooms, r)
          /\ delivered' = NoPush]_vars
C14_Witness ==
    /\ last.kind = "join chat"
    /\ last.before < Cardinality(roomsOf(rooms, last.conn))
    /\ Cardinality(members(rooms, last.room)) >= 2
    /\ delivered = NoPush

\* C15: typing, stop typing and new message (well-formed or not) leave the
\* registry as it was.
C15_BroadcastKeepsRegistry ==
    [][(isTyping(last') \/ last'.kind = "new message") => rooms' = rooms]_vars
C15_Witness ==
    /\ last.kind = "new message"
    /\ last.raised
    /\ roomsOf(rooms, last.conn) # {}
    /\ \E d \in Conns : d # last.conn /\ roomsOf(rooms, d) # {}

\* C16: a connection that stays live keeps every room membership it has.
C16_LiveNeverLeaves ==
    [][\A c \in Conns, r \in RoomIds :
          (c \in members(rooms, r) /\ status'[c] = "live") => c \in members(rooms', r)]_vars
C16_Witness ==
    /\ isJoin(last)
    /\ last.before >= 1
    /\ Cardinality(roomsOf(rooms, last.conn)) = last.before + 1

\* C17: the connection that sends a new message gets no push for it.
C17_SenderSocketExcluded ==
    last.kind = "new message" => delivered[last.conn] = 0
C17_Witness ==
    /\ isFanOut(last)
    /\ \E u \in Range(last.users.items) \ {last.sender} : last.conn \in members(rooms, u)
    /\ last.sender \notin roomsOf(rooms, last.conn)
    /\ \E d \in Conns : delivered[d] >= 1

\* C18: a typing / stop typing for R from a connection that is in no room
\* reaches every member of R, and a new message from such a connection reaches
\* every member of every recipient's personal room.
C18_OutsiderBroadcasts ==
    roomsOf(rooms, last.conn) = {} =>
        /\ isTyping(last) => \A d \in members(rooms, last.room) : delivered[d] >= 1
        /\ isFanOut(last) =>
              \A u \in Range(last.users.items) \ {last.sender} :
                  \A d \in members(rooms, u) : delivered[d] >= 1
C18_Witness ==
    /\ isTyping(last)
    /\ last.before = 0
    /\ roomsOf(rooms, last.conn) = {}
    /\ \E d \in Conns : delivered[d] >= 1
====
